---- MODULE Spec2Model ----
(***************************************************************************)
(* A model of scripts/data-extraction/extract_poe2_data.py: one run of the *)
(* script, from argument handling to exit.  The external library (PyPoE),  *)
(* the file system and the network are the environment: every call into   *)
(* them draws its outcome from the set of outcomes the call can have.      *)
(***************************************************************************)
EXTENDS Integers, Sequences, FiniteSets, TLC

\* ------------------------------------------------------------------ bounds

\* How many of the configured categories, and how many files of each, a run
\* of the model extracts (the configuration itself is EXTRACT_FILES below).
MaxCategories == 2
MaxFiles == 2

Min(a, b) == IF a < b THEN a ELSE b

\* ----------------------------------------------------------- configuration

\* The keys of EXTRACT_FILES in insertion order, the order .items() yields.
CategoryOrder == <<"items", "mods", "skills", "passive", "stats", "currency">>

\* A path inside the archive, split the way pathlib splits it.
DatPath(stem) == [dir |-> "Data", stem |-> stem, ext |-> ".dat64"]

EXTRACT_FILES ==
  [c \in {CategoryOrder[i] : i \in 1..Len(CategoryOrder)} |->
     CASE c = "items" ->
            <<DatPath("BaseItemTypes"), DatPath("UniqueItems"),
              DatPath("ItemClasses"), DatPath("ItemExperiencePerLevel"),
              DatPath("WeaponTypes"), DatPath("ArmourTypes"),
              DatPath("ShieldTypes")>>
       [] c = "mods" ->
            <<DatPath("Mods"), DatPath("ModType"), DatPath("ModDomains"),
              DatPath("ModGenerationType"), DatPath("Tags"),
              DatPath("SpawnWeight"), DatPath("CraftingBenchOptions")>>
       [] c = "skills" ->
            <<DatPath("ActiveSkills"), DatPath("GrantedEffects"),
              DatPath("GrantedEffectsPerLevel"), DatPath("GemTags"),
              DatPath("SkillGems"), DatPath("SupportGems"),
              DatPath("SkillTotemVariations")>>
       [] c = "passive" ->
            <<DatPath("PassiveSkills"), DatPath("PassiveSkillTrees"),
              DatPath("PassiveTreeExpansionJewelSizes"),
              DatPath("PassiveJewelSlots"), DatPath("AlternatePassiveSkills")>>
       [] c = "stats" ->
            <<DatPath("Stats"), DatPath("StatDescriptions"),
              DatPath("StatInterpolationTypes")>>
       [] c = "currency" ->
            <<DatPath("CurrencyItems"), DatPath("CurrencyStashTabLayout"),
              DatPath("Essences"), DatPath("EssenceTypes")>>]

\* The part of the configuration a run of the model goes through.
Categories == SubSeq(CategoryOrder, 1, Min(MaxCategories, Len(CategoryOrder)))
CategorySet == {Categories[i] : i \in 1..Len(Categories)}
Files(c) == SubSeq(EXTRACT_FILES[c], 1, Min(MaxFiles, Len(EXTRACT_FILES[c])))

\* Path(file_path).stem
Stem(path) == path.stem

tree_paths ==
  <<[dir |-> "Data", stem |-> "PassiveSkillTree", ext |-> ".json"],
    [dir |-> "Data", stem |-> "PassiveSkillTree_0_3_0", ext |-> ".json"],
    [dir |-> "Metadata", stem |-> "PassiveSkillTree", ext |-> ".json"]>>

files_to_download ==
  <<[filename |-> "base_items.json", source |-> "RePoE", remote_file |-> "base_items.json"],
    [filename |-> "uniques.json", source |-> "RePoE", remote_file |-> "uniques.json"],
    [filename |-> "gems.json", source |-> "RePoE", remote_file |-> "gems.json"],
    [filename |-> "mods.json", source |-> "RePoE", remote_file |-> "mods.json"],
    [filename |-> "passive_skills.json", source |-> "RePoE", remote_file |-> "passive_skills.json"]>>

\* ------------------------------------------------------------ output files

\* A file under OUTPUT_DIR.
CategoryFile(c) == [name |-> c, suffix |-> "_data.json"]
CombinedFile == [name |-> "poe2_all_data", suffix |-> ".json"]
TreeFile == [name |-> "passive_tree", suffix |-> ".json"]
DownloadedFile(i) == [name |-> files_to_download[i].filename, suffix |-> ""]

OutputFiles ==
  {CategoryFile(c) : c \in CategorySet} \cup {CombinedFile, TreeFile}
    \cup {DownloadedFile(i) : i \in 1..Len(files_to_download)}

Absent == [state |-> "absent"]
Partial == [state |-> "partial"]
Written(data) == [state |-> "written", data |-> data]

\* ------------------------------------------------- values the library yields

\* A value of a decoded row: its kind, and its payload (a list's payload is
\* the kinds of its elements).
Value(kind, items) == [kind |-> kind, items |-> items]

ScalarKinds == {"str", "number"}

\* Two tables the decoding library may yield.  The first holds every kind of
\* value parse_dat_file tells apart and a list of numbers; the second holds a
\* list of byte strings.
LibTableMixed ==
  <<[Id |-> Value("str", <<"Metadata/Items/Amulet1">>),
     Level |-> Value("number", <<"12">>),
     Hash |-> Value("bytes", <<"\\x00\\xff">>),
     Ref |-> Value("object", <<"DatRecord">>),
     TagsKeys |-> Value("list", <<"number", "number">>)]>>

LibTableByteList ==
  <<[Id |-> Value("str", <<"Metadata/Items/Ring1">>),
     Level |-> Value("number", <<"3">>),
     Hash |-> Value("bytes", <<"\\x01">>),
     Ref |-> Value("object", <<"DatRecord">>),
     TagsKeys |-> Value("list", <<"bytes">>)]>>

LibTables == {LibTableMixed, LibTableByteList}

\* --------------------------------------------------------- pure functions

\* The conversion of one value in parse_dat_file: a value with a __dict__ is
\* replaced by its str(), a byte string by its hex(); anything else is kept.
ConvertValue(v) ==
  IF v.kind = "object" THEN Value("str", <<"str">> \o v.items)
  ELSE IF v.kind = "bytes" THEN Value("str", <<"hex">> \o v.items)
  ELSE v

\* parse_dat_file on the rows the library decoded: one row dictionary per row,
\* one entry per column.
parse_dat_file(table) ==
  [i \in 1..Len(table) |->
     [col_name \in DOMAIN table[i] |-> ConvertValue(table[i][col_name])]]

\* What json.dump accepts as a value: a string, a number, or a list of them.
JsonSerializable(v) ==
  \/ v.kind \in ScalarKinds
  \/ /\ v.kind = "list"
     /\ \A i \in 1..Len(v.items) : v.items[i] \in ScalarKinds

\* json.dump(category_data, f) returns (it raises TypeError otherwise).
JsonDumpReturns(data) ==
  \A t \in DOMAIN data : \A i \in 1..Len(data[t]) :
    \A col_name \in DOMAIN data[t][i] : JsonSerializable(data[t][i][col_name])

\* ------------------------------------------------------------------- state

VARIABLES
  args,             \* the parsed command line: [community, ggpk]
  PYPOE_AVAILABLE,  \* whether the import of pypoe succeeded
  installation,     \* what find_poe2_installation returns on this machine
  dirExists,        \* whether OUTPUT_DIR exists
  dirAtStart,       \* whether OUTPUT_DIR existed when the script started
  pc,               \* the position of the run
  ggpk_path,        \* extractor.ggpk_path
  ggpk_file,        \* extractor.ggpk_file: "None", "unopened", "open", "closed"
  spec,             \* extractor.spec: "None" or "loaded"
  openedPath,       \* the path handed to GGPKFile.open
  cat,              \* extract_all: index of the category in hand
  fileIdx,          \* extract_category: index of the file in hand
  category_data,    \* extract_category's dictionary
  all_data,         \* extract_all's dictionary
  files,            \* the files under OUTPUT_DIR
  treeIdx,          \* extract_passive_tree_json: index into tree_paths
  dlIdx,            \* download_community_data: index into files_to_download
  exc,              \* the exception that left main's try block
  downloadCalls,    \* how often download_community_data was entered
  autodetect,       \* whether find_poe2_installation was called
  attempts,         \* the files extract_category tried, with what happened
  readLog,          \* the states of the archive at each lookup in it
  requests,         \* the GETs issued, with what happened
  failedWrites      \* whether a write found OUTPUT_DIR missing

vars ==
  <<args, PYPOE_AVAILABLE, installation, dirExists, dirAtStart, pc, ggpk_path,
    ggpk_file, spec, openedPath, cat, fileIdx, category_data, all_data, files,
    treeIdx, dlIdx, exc, downloadCalls, autodetect, attempts, readLog,
    requests, failedWrites>>

envVars == <<args, PYPOE_AVAILABLE, installation, dirAtStart>>
extractorVars == <<ggpk_path, ggpk_file, spec, openedPath, autodetect>>
extractVars == <<cat, fileIdx, category_data, all_data, attempts>>
downloadVars == <<dlIdx, requests>>

NoException == [type |-> "None", from |-> "None"]
EmptyDict == [t \in {} |-> <<>>]

UserGgpk == "D:/Games/PoE2/Content.ggpk"
InstalledGgpk == "C:/Program Files (x86)/Grinding Gear Games/Path of Exile 2/Content.ggpk"

Init ==
  /\ args \in [community : BOOLEAN, ggpk : {"None", UserGgpk}]
  /\ PYPOE_AVAILABLE \in BOOLEAN
  /\ installation \in {"None", InstalledGgpk}
  /\ dirExists \in BOOLEAN
  /\ dirAtStart = dirExists
  /\ pc = "start"
  /\ ggpk_path = "None"
  /\ ggpk_file = "None"
  /\ spec = "None"
  /\ openedPath = "None"
  /\ cat = 1
  /\ fileIdx = 1
  /\ category_data = EmptyDict
  /\ all_data = EmptyDict
  /\ files = [f \in OutputFiles |-> Absent]
  /\ treeIdx = 1
  /\ dlIdx = 1
  /\ exc = NoException
  /\ downloadCalls = 0
  /\ autodetect = FALSE
  /\ attempts = <<>>
  /\ readLog = {}
  /\ requests = <<>>
  /\ failedWrites = FALSE

\* ----------------------------------------------------------------- helpers

\* The directory is not created: it stays as it was.
MkdirSkipped(exists) == exists

\* OUTPUT_DIR.mkdir(parents=True, exist_ok=True)
MkdirParents(exists) == TRUE

\* open(output_file, 'w'): the file can be created only in an existing directory.
CanCreate(exists) == exists

\* Every exception falls back to the download.
ExceptClauseAllFallBack(type) == "fallback"

\* Which except clause of main takes an exception of the given type.
ExceptClause(type) ==
  IF type = "FileNotFoundError" THEN "fallback" ELSE "hint"

\* An exception leaves main's try block: the except clause that takes it runs.
RaiseInMain(type, from) ==
  /\ exc' = [type |-> type, from |-> from]
  /\ IF ExceptClause(type) = "fallback"
       THEN /\ pc' = "download"
            /\ downloadCalls' = downloadCalls + 1
       ELSE /\ pc' = "done"
            /\ UNCHANGED downloadCalls

\* ------------------------------------------------------ argument handling

\* The __main__ block's choice between the two entry points.
TakesCommunity(a) == a.community

\* if args.community: download_community_data() else: main()
Dispatch ==
  /\ pc = "start"
  /\ IF TakesCommunity(args)
       THEN /\ pc' = "download"
            /\ downloadCalls' = downloadCalls + 1
       ELSE /\ pc' = "main"
            /\ UNCHANGED downloadCalls
  /\ UNCHANGED <<envVars, extractorVars, extractVars, downloadVars, dirExists,
                 files, treeIdx, exc, readLog, failedWrites>>

\* ------------------------------------------------------------------- main

\* The argument main hands to PoE2DataExtractor(...): none.
MainCtorArg(a) == "None"

\* main goes on to the extractor without PyPoE.
NoFallbackWithoutPyPoE(available) == FALSE

\* main's first test: without PyPoE it downloads and returns.
FallsBackWithoutPyPoE(available) == ~available

\* ggpk_path or self.find_poe2_installation()
CtorNeedsDetection(ggpk_arg) == ggpk_arg = "None"

\* main up to the end of PoE2DataExtractor.__init__.
Main ==
  /\ pc = "main"
  /\ IF FallsBackWithoutPyPoE(PYPOE_AVAILABLE)
       THEN /\ pc' = "download"
            /\ downloadCalls' = downloadCalls + 1
            /\ UNCHANGED <<extractorVars, exc>>
       ELSE LET ggpk_arg == MainCtorArg(args)
                path == IF CtorNeedsDetection(ggpk_arg)
                          THEN installation ELSE ggpk_arg
            IN /\ autodetect' = (PYPOE_AVAILABLE /\ CtorNeedsDetection(ggpk_arg))
               /\ IF ~PYPOE_AVAILABLE
                    THEN /\ RaiseInMain("ImportError", "__init__")
                         /\ UNCHANGED <<ggpk_path, ggpk_file, spec, openedPath>>
                  ELSE IF path = "None"
                    THEN /\ RaiseInMain("FileNotFoundError", "__init__")
                         /\ UNCHANGED <<ggpk_path, ggpk_file, spec, openedPath>>
                    ELSE /\ ggpk_path' = path
                         /\ ggpk_file' = "None"
                         /\ spec' = "None"
                         /\ pc' = "extract_all"
                         /\ UNCHANGED <<openedPath, exc, downloadCalls>>
  /\ UNCHANGED <<envVars, extractVars, downloadVars, dirExists, files, treeIdx,
                 readLog, failedWrites>>

\* ------------------------------------------------------------- open_ggpk

\* What open_ggpk can do: return, or raise from GGPKFile.open (the file is
\* gone, or is no archive), or raise from load_spec.
OpenOutcomes == {"ok", "FileNotFoundError", "Exception", "load_spec"}

\* self.ggpk_file after open_ggpk: the object is assigned before it is opened.
OpenedState(o) == IF o \in {"ok", "load_spec"} THEN "open" ELSE "unopened"

\* The type of the exception open_ggpk raises.
OpenRaises(o) == IF o = "load_spec" THEN "Exception" ELSE o

\* `if not self.ggpk_file`: an object, opened or not, is true.
NotGgpkFile(f) == f = "None"

\* ------------------------------------------------------------ extract_file

\* What the lookup self.ggpk_file[file_path] and node.get_content() can do:
\* raise, yield no node, yield empty content, yield content.
ReadOutcomes == {"raise", "none", "empty", "content"}

\* extract_file with the outcome r of the read and, where it has to open the
\* archive first, the outcome o of that: the extractor's fields afterwards,
\* whether the lookup happened, and what the caller gets.
extract_file(r, o) ==
  LET opens == NotGgpkFile(ggpk_file)
      failed == opens /\ o # "ok"
  IN [ggpk_file |-> IF opens THEN OpenedState(o) ELSE ggpk_file,
      spec |-> IF opens /\ o = "ok" THEN "loaded" ELSE spec,
      openedPath |-> IF opens THEN ggpk_path ELSE openedPath,
      looked |-> ~failed,
      result |-> IF failed THEN "raise" ELSE r]

\* The outcomes of the open inside extract_file: one when it does not open.
OpenChoices == IF NotGgpkFile(ggpk_file) THEN OpenOutcomes ELSE {"ok"}

\* ------------------------------------------------------------- extract_all

\* extract_all up to its loop: it opens the archive if it has none.
ExtractAllOpen ==
  /\ pc = "extract_all"
  /\ \E o \in OpenOutcomes :
       IF NotGgpkFile(ggpk_file)
         THEN /\ ggpk_file' = OpenedState(o)
              /\ openedPath' = ggpk_path
              /\ spec' = IF o = "ok" THEN "loaded" ELSE spec
              /\ IF o = "ok"
                   THEN /\ pc' = "category"
                        /\ UNCHANGED <<exc, downloadCalls>>
                   ELSE RaiseInMain(OpenRaises(o), "open_ggpk")
         ELSE /\ pc' = "category"
              /\ UNCHANGED <<ggpk_file, openedPath, spec, exc, downloadCalls>>
  /\ all_data' = EmptyDict
  /\ cat' = 1
  /\ UNCHANGED <<envVars, ggpk_path, autodetect, fileIdx, category_data,
                 attempts, downloadVars, dirExists, files, treeIdx, readLog,
                 failedWrites>>

\* The start of extract_category for the next category of the loop.
ExtractCategoryBegin ==
  /\ pc = "category"
  /\ cat <= Len(Categories)
  /\ category_data' = EmptyDict
  /\ fileIdx' = 1
  /\ attempts' = <<>>
  /\ pc' = "extract_category"
  /\ UNCHANGED <<envVars, extractorVars, cat, all_data, downloadVars,
                 dirExists, files, treeIdx, exc, downloadCalls, readLog,
                 failedWrites>>

\* What happened to one file of a category.
FileOutcome(r, d) ==
  IF r = "raise" THEN "extract_raise"
  ELSE IF r \in {"none", "empty"} THEN "missing"
  ELSE IF d = "raise" THEN "decode_raise"
  ELSE "parsed"

\* category_data after the loop body for file_path.
StoreParsed(data, file_path, outcome, table) ==
  IF outcome = "parsed"
    THEN (Stem(file_path) :> parse_dat_file(table)) @@ data
    ELSE data

\* An exception ends the loop: the rest of the list (7 files at most) is skipped.
NextFileAbortOnError(i, outcome) ==
  IF outcome \in {"extract_raise", "decode_raise"} THEN i + 7 ELSE i + 1

\* The loop of extract_category goes on to the next file whatever happened.
NextFile(i, outcome) == i + 1

\* One pass of extract_category's loop: extract the file, decode it, store it;
\* a missing file is warned about, an exception is logged.
ExtractCategoryFile ==
  /\ pc = "extract_category"
  /\ fileIdx <= Len(Files(Categories[cat]))
  /\ \E r \in ReadOutcomes, o \in OpenChoices, d \in {"raise", "rows"},
        table \in LibTables :
       LET file_path == Files(Categories[cat])[fileIdx]
           got == extract_file(r, o)
           outcome == FileOutcome(got.result, d)
       IN /\ ggpk_file' = got.ggpk_file
          /\ spec' = got.spec
          /\ openedPath' = got.openedPath
          /\ readLog' = IF got.looked THEN readLog \cup {ggpk_file'} ELSE readLog
          /\ category_data' = StoreParsed(category_data, file_path, outcome, table)
          /\ attempts' = Append(attempts, [file |-> file_path, outcome |-> outcome,
                                           table |-> IF outcome = "parsed"
                                                       THEN table ELSE <<>>])
          /\ fileIdx' = NextFile(fileIdx, outcome)
  /\ UNCHANGED <<envVars, ggpk_path, autodetect, cat, all_data, downloadVars,
                 dirExists, files, treeIdx, pc, exc, downloadCalls, failedWrites>>

\* extract_category returns its dictionary; extract_all keeps it.
ExtractCategoryReturn ==
  /\ pc = "extract_category"
  /\ fileIdx > Len(Files(Categories[cat]))
  /\ all_data' = (Categories[cat] :> category_data) @@ all_data
  /\ pc' = "save"
  /\ UNCHANGED <<envVars, extractorVars, cat, fileIdx, category_data, attempts,
                 downloadVars, dirExists, files, treeIdx, exc, downloadCalls,
                 readLog, failedWrites>>

\* extract_all saves the category: it creates the directory, opens the file
\* and dumps the dictionary, which raises on a value JSON has no form for.
SaveCategory ==
  /\ pc = "save"
  /\ dirExists' = MkdirParents(dirExists)
  /\ LET output_file == CategoryFile(Categories[cat])
     IN IF ~CanCreate(dirExists')
          THEN /\ failedWrites' = TRUE
               /\ RaiseInMain("FileNotFoundError", "open")
               /\ UNCHANGED <<files, cat>>
        ELSE IF ~JsonDumpReturns(category_data)
          THEN /\ files' = [files EXCEPT ![output_file] = Partial]
               /\ RaiseInMain("TypeError", "json.dump")
               /\ UNCHANGED <<failedWrites, cat>>
        ELSE /\ files' = [files EXCEPT ![output_file] = Written(category_data)]
             /\ cat' = cat + 1
             /\ pc' = "category"
             /\ UNCHANGED <<failedWrites, exc, downloadCalls>>
  /\ UNCHANGED <<envVars, extractorVars, fileIdx, category_data, all_data,
                 attempts, downloadVars, treeIdx, readLog>>

\* The category dictionaries merged into one dictionary of tables.
CombinedDataFlat(data) ==
  [t \in UNION {DOMAIN data[c] : c \in DOMAIN data} |->
     data[CHOOSE c \in DOMAIN data : t \in DOMAIN data[c]][t]]

\* What extract_all dumps into the combined file.
CombinedData(data) == data

\* ggpk_file.close()
CloseGgpk(f) == IF NotGgpkFile(f) THEN f ELSE "closed"

\* After the loop: extract_all writes the combined file, closes the archive
\* and returns to main.
SaveCombined ==
  /\ pc = "category"
  /\ cat > Len(Categories)
  /\ IF ~CanCreate(dirExists)
       THEN /\ failedWrites' = TRUE
            /\ RaiseInMain("FileNotFoundError", "open")
            /\ UNCHANGED <<files, ggpk_file, treeIdx>>
       ELSE /\ files' = [files EXCEPT ![CombinedFile] = Written(CombinedData(all_data))]
            /\ ggpk_file' = CloseGgpk(ggpk_file)
            /\ treeIdx' = 1
            /\ pc' = "passive_tree"
            /\ UNCHANGED <<failedWrites, exc, downloadCalls>>
  /\ UNCHANGED <<envVars, ggpk_path, spec, openedPath, autodetect, extractVars,
                 downloadVars, dirExists, readLog>>

\* ------------------------------------------------ extract_passive_tree_json

\* The loop over tree_paths goes on to the next path after any failure.
NextTreePath(i) == i + 1

\* One pass of the loop: extract the path, parse it as JSON and save it; the
\* first path that is saved ends the function, any exception skips the path.
PassiveTreePath ==
  /\ pc = "passive_tree"
  /\ treeIdx <= Len(tree_paths)
  /\ \E r \in ReadOutcomes, o \in OpenChoices, j \in {"json", "not_json"} :
       LET got == extract_file(r, o)
           loaded == got.result = "content" /\ j = "json"
       IN /\ ggpk_file' = got.ggpk_file
          /\ spec' = got.spec
          /\ openedPath' = got.openedPath
          /\ readLog' = IF got.looked THEN readLog \cup {ggpk_file'} ELSE readLog
          /\ IF loaded /\ CanCreate(dirExists)
               THEN /\ files' = [files EXCEPT ![TreeFile] =
                                   Written([path |-> tree_paths[treeIdx]])]
                    /\ pc' = "done"
                    /\ UNCHANGED <<treeIdx, failedWrites>>
               ELSE /\ treeIdx' = NextTreePath(treeIdx)
                    /\ failedWrites' = (failedWrites \/ loaded)
                    /\ UNCHANGED <<files, pc>>
  /\ UNCHANGED <<envVars, ggpk_path, autodetect, extractVars, downloadVars,
                 dirExists, exc, downloadCalls>>

\* No path gave a tree: the function warns and returns None, and main ends.
PassiveTreeNotFound ==
  /\ pc = "passive_tree"
  /\ treeIdx > Len(tree_paths)
  /\ pc' = "done"
  /\ UNCHANGED <<envVars, extractorVars, extractVars, downloadVars, dirExists,
                 files, treeIdx, exc, downloadCalls, readLog, failedWrites>>

\* ------------------------------------------------- download_community_data

\* What requests.get and raise_for_status can do.
GetOutcomes == {"ok", "network_error", "http_error"}

\* A failed request ends the loop.
NextDownloadAbortOnError(i, outcome) ==
  IF outcome = "ok" THEN i + 1 ELSE Len(files_to_download) + 1

\* The loop over files_to_download goes on to the next file whatever happened.
NextDownload(i, outcome) == i + 1

\* Whether the loop body writes the file after the request.
SavesResponse(outcome) == outcome = "ok"

\* download_community_data up to its loop: it creates the directory.
DownloadStart ==
  /\ pc = "download"
  /\ dirExists' = MkdirParents(dirExists)
  /\ dlIdx' = 1
  /\ requests' = <<>>
  /\ pc' = "downloading"
  /\ UNCHANGED <<envVars, extractorVars, extractVars, files, treeIdx, exc,
                 downloadCalls, readLog, failedWrites>>

\* One pass of the loop: one GET, and the response saved if there is one; an
\* exception is logged.
DownloadFile ==
  /\ pc = "downloading"
  /\ dlIdx <= Len(files_to_download)
  /\ \E outcome \in GetOutcomes :
       /\ requests' = Append(requests, [file |-> dlIdx, outcome |-> outcome])
       /\ IF SavesResponse(outcome) /\ CanCreate(dirExists)
            THEN /\ files' = [files EXCEPT ![DownloadedFile(dlIdx)] =
                                Written([source |-> files_to_download[dlIdx].source,
                                         remote_file |-> files_to_download[dlIdx].remote_file])]
                 /\ UNCHANGED failedWrites
            ELSE /\ failedWrites' = (failedWrites \/ SavesResponse(outcome))
                 /\ UNCHANGED files
       /\ dlIdx' = NextDownload(dlIdx, outcome)
  /\ UNCHANGED <<envVars, extractorVars, extractVars, dirExists, treeIdx, pc,
                 exc, downloadCalls, readLog>>

\* The loop is over: download_community_data returns and the script ends.
DownloadReturn ==
  /\ pc = "downloading"
  /\ dlIdx > Len(files_to_download)
  /\ pc' = "done"
  /\ UNCHANGED <<envVars, extractorVars, extractVars, downloadVars, dirExists,
                 files, treeIdx, exc, downloadCalls, readLog, failedWrites>>

\* ------------------------------------------------------------ specification

Next ==
  \/ Dispatch
  \/ Main
  \/ ExtractAllOpen
  \/ ExtractCategoryBegin
  \/ ExtractCategoryFile
  \/ ExtractCategoryReturn
  \/ SaveCategory
  \/ SaveCombined
  \/ PassiveTreePath
  \/ PassiveTreeNotFound
  \/ DownloadStart
  \/ DownloadFile
  \/ DownloadReturn

Spec == Init /\ [][Next]_vars

\* ------------------------------------------------------------------ claims

Done == pc = "done"

\* C1 as stated: over all runs, download_community_data is invoked exactly
\* when PyPoE cannot be imported or the constructor raises the
\* missing-installation error.
C1_FallbackExactlyWhenUnavailableOrMissing ==
  Done =>
    (downloadCalls >= 1 <=>
       (~PYPOE_AVAILABLE
          \/ (exc.type = "FileNotFoundError" /\ exc.from = "__init__")))

\* C1 amended: download_community_data is invoked at most once, and in a run
\* that ends it was invoked exactly when --community was given, or PyPoE
\* cannot be imported, or a FileNotFoundError (the missing-installation error
\* or one from opening the archive) left main's try block.
C1_FallbackExactlyOnCommunityUnavailableOrFileNotFound ==
  /\ downloadCalls \in {0, 1}
  /\ Done =>
       (downloadCalls = 1 <=>
          (args.community \/ ~PYPOE_AVAILABLE \/ exc.type = "FileNotFoundError"))

\* C1's case: without --community and with PyPoE, no installation is found,
\* and the run has downloaded.
C1_Witness ==
  /\ Done
  /\ ~args.community
  /\ PYPOE_AVAILABLE
  /\ exc = [type |-> "FileNotFoundError", from |-> "__init__"]
  /\ downloadCalls = 1
  /\ Len(requests) = Len(files_to_download)

\* C2 as stated: once extract_all has ended in a run in which open_ggpk
\* returned, every configured category has its <category>_data.json.
C2_EveryCategoryHasItsFile ==
  (pc \in {"passive_tree", "done"} /\ spec = "loaded") =>
    \A c \in CategorySet : files[CategoryFile(c)].state = "written"

\* C3 as stated: the combined file maps table names to rows, and holds exactly
\* the tables of the per-category files, each with the same rows.
C3_CombinedIsUnionOfTables ==
  files[CombinedFile].state = "written" =>
    LET combined == files[CombinedFile].data
        tables == UNION {DOMAIN files[CategoryFile(c)].data : c \in CategorySet}
    IN /\ DOMAIN combined = tables
       /\ \A c \in CategorySet :
            \A t \in DOMAIN files[CategoryFile(c)].data :
              combined[t] = files[CategoryFile(c)].data[t]

\* C3 amended: the combined file maps each category name to that category's
\* dictionary, which is the content of the category's own file: the same
\* tables with the same rows, one level down.
C3_CombinedIsCategoriesToTables ==
  files[CombinedFile].state = "written" =>
    LET combined == files[CombinedFile].data
    IN /\ DOMAIN combined = CategorySet
       /\ \A c \in CategorySet : files[CategoryFile(c)] = Written(combined[c])

\* C3's case: extract_all completed with tables in two categories.
C3_Witness ==
  /\ files[CombinedFile].state = "written"
  /\ Stem(Files("items")[1]) \in DOMAIN files[CategoryFile("items")].data
  /\ Stem(Files("mods")[1]) \in DOMAIN files[CategoryFile("mods")].data
  /\ files[CategoryFile("mods")].data[Stem(Files("mods")[1])]
       = parse_dat_file(LibTableMixed)

\* C4 as stated: whenever an exception leaves main's try block, the run has
\* invoked download_community_data when main returns.
C4_EveryFailureFallsBack ==
  (Done /\ exc.type # "None") => downloadCalls >= 1

\* C4 amended: an exception that leaves main's try block leads to the download
\* exactly if it is a FileNotFoundError; after any other exception main prints
\* a hint and returns without downloading.
C4_OnlyFileNotFoundFallsBack ==
  /\ exc.type = "FileNotFoundError" => downloadCalls = 1
  /\ exc.type \notin {"None", "FileNotFoundError"} => downloadCalls = 0

\* C4's case: opening the archive raised FileNotFoundError and the run ended
\* after downloading.
C4_Witness ==
  /\ Done
  /\ exc = [type |-> "FileNotFoundError", from |-> "open_ggpk"]
  /\ downloadCalls = 1
  /\ \E i \in 1..Len(requests) : requests[i].outcome = "ok"

\* C5 as stated: with --ggpk <path> and without --community, the archive that
\* is opened is the one at <path>, and no installation is looked for.
C5_GgpkFlagIsHonoured ==
  (args.ggpk # "None" /\ ~args.community) =>
    (~autodetect /\ openedPath \in {"None", args.ggpk})

\* C6: no file exists under the output directory unless the directory does,
\* and no write found the directory missing.
C6_DirectoryBeforeEveryWrite ==
  /\ ~failedWrites
  /\ (\E f \in OutputFiles : files[f].state # "absent") => dirExists

\* C6's case: the directory was absent at the start, and extract_all and
\* extract_passive_tree_json both wrote into it.
C6_Witness ==
  /\ ~dirAtStart
  /\ Done
  /\ files[CombinedFile].state = "written"
  /\ files[TreeFile].state = "written"

\* C7 as stated: every value of every row dictionary is a scalar.
C7_RowValuesAreScalars ==
  \A t \in DOMAIN category_data : \A i \in 1..Len(category_data[t]) :
    \A col_name \in DOMAIN category_data[t][i] :
      category_data[t][i][col_name].kind \in ScalarKinds

\* C8: when extract_category has returned, no exception has left it, it has
\* tried every file of the category once, in list order, and its dictionary
\* holds exactly the tables that were extracted with content and decoded,
\* each with the rows parse_dat_file made of them.
C8_ExtractCategoryLogsAndContinues ==
  pc = "save" =>
    LET files_ == Files(Categories[cat])
        parsed == {i \in 1..Len(attempts) : attempts[i].outcome = "parsed"}
    IN /\ exc = NoException
       /\ Len(attempts) = Len(files_)
       /\ \A i \in 1..Len(attempts) : attempts[i].file = files_[i]
       /\ DOMAIN category_data = {Stem(attempts[i].file) : i \in parsed}
       /\ \A i \in parsed :
            category_data[Stem(attempts[i].file)] = parse_dat_file(attempts[i].table)

\* C8's case: the first file raised while it was decoded, and the second was
\* still extracted and is in the dictionary.
C8_Witness ==
  /\ pc = "save"
  /\ Len(attempts) >= 2
  /\ attempts[1].outcome = "decode_raise"
  /\ attempts[2].outcome = "parsed"
  /\ DOMAIN category_data = {Stem(attempts[2].file)}

\* C9: download_community_data requests the files one by one in the order of
\* files_to_download, each once; when it has returned it has requested them
\* all, and a file is written exactly if its request succeeded.
C9_DownloadsSequentialNoRetry ==
  (pc \in {"downloading", "done"} /\ downloadCalls = 1) =>
    /\ Len(requests) = (IF Done THEN Len(files_to_download) ELSE dlIdx - 1)
    /\ \A i \in 1..Len(requests) :
         /\ requests[i].file = i
         /\ files[DownloadedFile(i)].state = "written"
              <=> requests[i].outcome = "ok"

\* C9's case: two requests failed, and a later one was still made and saved.
C9_Witness ==
  /\ Done
  /\ downloadCalls = 1
  /\ requests[1].outcome = "network_error"
  /\ requests[2].outcome = "http_error"
  /\ requests[3].outcome = "ok"
  /\ files[DownloadedFile(1)].state = "absent"
  /\ files[DownloadedFile(3)].state = "written"

\* C10 as stated: every lookup in the archive happens while it is open.
C10_ReadsOnlyWhileOpen ==
  readLog \subseteq {"open"}

====
